---- MODULE Spec2Model ----
(***************************************************************************)
(* Model of react-mapbox-ui: the Map component (src/components/Map.tsx)    *)
(* and the hooks useMapboxUI / useMapboxUIEffect (src/hooks.ts).           *)
(*                                                                         *)
(* One Map component is followed from its first render to its unmount.     *)
(* React is modelled by its contract: a render commits atomically (refs    *)
(* are attached in the commit), the passive effects of a commit are        *)
(* flushed afterwards (all cleanups, children first, then all effect       *)
(* bodies, children first) and always before the next render.  The map     *)
(* library is modelled by its event bus: on/once/off/fire with the         *)
(* listener lists of mapbox-gl's Evented (a listener is stored at most     *)
(* once per event; one-time listeners are removed before they are called). *)
(***************************************************************************)
EXTENDS Integers, Sequences, FiniteSets, TLC

\* ------------------------------------------------------------------ bounds
MaxMaps == 3

\* --------------------------------------------------------------- constants
Null == 0
MapboxGL == "MapboxGL"
NoModule == "null"
NoRef == "null"
Div == "div"
Unset == "unset"
NoCleanup == [map |-> Null, on |-> <<>>, once |-> <<>>]
NoRt == [map |-> Null]

Insts == 1..MaxMaps
Events == {"load", "click"}

\* The default value of the context: what a consumer outside any provider sees.
MapCtx == [map |-> Null, mapbox |-> MapboxGL]

\* The `rest` props a parent may pass (handler props and one other prop).
PROPS ==
  << << [name |-> "onLoad", fn |-> 1], [name |-> "onceClick", fn |-> 2] >>,
     << [name |-> "onLoad", fn |-> 3], [name |-> "onClick", fn |-> 4] >>,
     << [name |-> "title", fn |-> 0], [name |-> "onceLoad", fn |-> 5] >> >>

PropIds == 1..Len(PROPS)

\* ----------------------------------------------------------------- helpers
Range(s) == {s[k] : k \in 1..Len(s)}

Remove(s, x) == SelectSeq(s, LAMBDA y : y # x)

\* Handler-prop names: "on<Event>" / "once<Event>".
ListenTypeOf(name) ==
  CASE name \in {"onLoad", "onClick"} -> "on"
    [] name \in {"onceLoad", "onceClick"} -> "once"
    [] OTHER -> "none"

EventOf(name) ==
  CASE name \in {"onLoad", "onceLoad"} -> "load"
    [] name \in {"onClick", "onceClick"} -> "click"
    [] OTHER -> "none"

\* pickHandlers(rest): [onHandlers, onceHandlers]
pickHandlers(rest) ==
  << SelectSeq(rest, LAMBDA h : ListenTypeOf(h.name) = "on"),
     SelectSeq(rest, LAMBDA h : ListenTypeOf(h.name) = "once") >>

\* createListeners(handlers, map, listenerCtx, {listenType}): one listener per
\* handler, bound to its event and to the listener context (the props object).
createListeners(handlers, ctxProps, listenType) ==
  [k \in 1..Len(handlers) |->
     [event |-> EventOf(handlers[k].name),
      listenType |-> listenType,
      listener |-> [src |-> "prop", name |-> handlers[k].name,
                    fn |-> handlers[k].fn, ctx |-> ctxProps]]]

\* The component's own load listener: const onLoad = () => setIsLoaded(true)
onLoad == [src |-> "internal", name |-> "load", fn |-> 0, ctx |-> 0]

\* ------------------------------------------------- the map's event bus
EmptyBus == [on |-> [e \in Events |-> <<>>], once |-> [e \in Events |-> <<>>]]

MapOn(b, e, l) ==
  IF l \in Range(b.on[e]) THEN b ELSE [b EXCEPT !.on[e] = Append(@, l)]

MapOnce(b, e, l) ==
  IF l \in Range(b.once[e]) THEN b ELSE [b EXCEPT !.once[e] = Append(@, l)]

MapOff(b, e, l) ==
  [b EXCEPT !.on[e] = Remove(@, l), !.once[e] = Remove(@, l)]

\* The listeners fire(e) calls, in call order.
Called(b, e) == b.on[e] \o b.once[e]

AfterFire(b, e) == [b EXCEPT !.once[e] = <<>>]

RECURSIVE addListeners(_, _)
addListeners(b, ls) ==
  IF ls = <<>> THEN b
  ELSE LET h == Head(ls)
           b1 == IF h.listenType = "on" THEN MapOn(b, h.event, h.listener)
                 ELSE MapOnce(b, h.event, h.listener)
       IN addListeners(b1, Tail(ls))

RECURSIVE removeListeners(_, _)
removeListeners(b, ls) ==
  IF ls = <<>> THEN b
  ELSE removeListeners(MapOff(b, Head(ls).event, Head(ls).listener), Tail(ls))


\* ------------------------------------------------------------------- state
VARIABLES
  lifecycle,        \* "mounted" | "unmounted" : the Map component
  phase,            \* "idle" | "c1" | "c2" | "e1" | "e2" : position in the passive-effect flush
  dirty,            \* a render of Map is scheduled
  props,            \* the props the parent currently passes (index into PROPS)
  rProps,           \* the props of the last render (what the closures captured)
  containerRef,     \* mapContainer.current
  mapInstance,      \* useState: mapInstance
  isLoaded,         \* useState: isLoaded
  ctxMap,           \* value.map of MapCtx.Provider as of the last render
  childrenRendered, \* {isLoaded && children} of the last render
  mapDeps,          \* [mapContainer.current] as read by the last render
  mapPending,       \* the mount effect is scheduled by the last commit
  cleanup,          \* the teardown returned by the last run of the mount effect
  constructed,      \* number of calls of new MapboxGL.Map(...)
  bus,              \* the listener lists of each constructed instance
  tornDown,         \* instances whose effect teardown has run
  captured,         \* instance -> props of the render whose effect built it
  loaded,           \* instances that have emitted "load"
  loadedBy,         \* the instance whose load event set isLoaded
  lastFired,        \* the last emitted event, the listeners it called, and
                    \* what was true when it was emitted: isLoaded, children
                    \* rendered, a child's callback already invoked
  staleUpdate,      \* setIsLoaded was called after the component unmounted
  onceCalls,        \* "once" handler prop -> number of times it has been invoked
  childDep,         \* the dep the child currently gets from its props
  childSeen,        \* ctx.map read by the child's last render (useMapboxUI)
  childDeps,        \* [map, mapbox, ...deps] of the child's last render
  childPending,     \* the child's effect is scheduled by the last commit
  childRt,          \* the cleanup returned by the child's last effect run
  childActive,      \* invocations of the child's callback not yet cleaned up
  childMaps,        \* every ctx.map the child's callback has been invoked with
  orphan,           \* a consumer outside any provider: "none" | "rendered" | "committed"
  orphanActive      \* invocations of the orphan's callback

mapVars == <<mapInstance, isLoaded, ctxMap, childrenRendered, mapDeps,
             mapPending, cleanup, constructed, containerRef>>
busVars == <<bus, tornDown, captured, loaded, loadedBy, lastFired, staleUpdate,
             onceCalls>>
childVars == <<childDep, childSeen, childDeps, childPending, childRt, childActive,
               childMaps>>
orphanVars == <<orphan, orphanActive>>
vars == <<lifecycle, phase, dirty, props, rProps, mapVars, busVars, childVars,
          orphanVars>>

NoFire == [inst |-> Null, event |-> "none", stale |-> FALSE, called |-> <<>>,
           wasLoaded |-> FALSE, shown |-> FALSE, ran |-> FALSE]

\* The handler props a parent may pass with listenType "once".
OnceFns == UNION {{h.fn : h \in Range(pickHandlers(PROPS[p])[2])} : p \in PropIds}

\* The number of "once" handler-prop listeners of f among the called ones.
OnceCount(called, f) ==
  Len(SelectSeq(called, LAMBDA l : /\ l.src = "prop"
                                   /\ ListenTypeOf(l.name) = "once"
                                   /\ l.fn = f))

Init ==
  /\ lifecycle = "mounted"
  /\ phase = "idle"
  /\ dirty = TRUE
  /\ props \in PropIds
  /\ rProps = props
  /\ containerRef = NoRef
  /\ mapInstance = Null
  /\ isLoaded = FALSE
  /\ ctxMap = MapCtx.map
  /\ childrenRendered = FALSE
  /\ mapDeps = Unset
  /\ mapPending = FALSE
  /\ cleanup = NoCleanup
  /\ constructed = 0
  /\ bus = [i \in Insts |-> EmptyBus]
  /\ tornDown = {}
  /\ captured = [i \in Insts |-> Null]
  /\ loaded = {}
  /\ loadedBy = Null
  /\ lastFired = NoFire
  /\ staleUpdate = FALSE
  /\ onceCalls = [f \in OnceFns |-> 0]
  /\ childDep \in {0, 1}
  /\ childSeen = Null
  /\ childDeps = <<>>
  /\ childPending = FALSE
  /\ childRt = NoRt
  /\ childActive = <<>>
  /\ childMaps = {}
  /\ orphan = "none"
  /\ orphanActive = <<>>

\* ------------------------------------------------------ hooks.ts
\* The callback a consumer passes: attaches something to ctx.map and returns
\* the cleanup that detaches it.
UserEffect(ctx) == [map |-> ctx.map]

UIEffectNoGuard(map, mapbox) ==
  [called |-> TRUE, arg |-> [map |-> map, mapbox |-> mapbox],
   rt |-> UserEffect([map |-> map, mapbox |-> mapbox])]

UIEffectDropRt(map, mapbox) ==
  IF map = Null \/ mapbox = NoModule
  THEN [called |-> FALSE, arg |-> MapCtx, rt |-> NoRt]
  ELSE [called |-> TRUE, arg |-> [map |-> map, mapbox |-> mapbox], rt |-> NoRt]

\* The body of the useEffect inside useMapboxUIEffect.
UIEffect(map, mapbox) ==
  IF map = Null \/ mapbox = NoModule
  THEN [called |-> FALSE, arg |-> MapCtx, rt |-> NoRt]
  ELSE [called |-> TRUE, arg |-> [map |-> map, mapbox |-> mapbox],
        rt |-> UserEffect([map |-> map, mapbox |-> mapbox])]

\* The deps array of useMapboxUIEffect.
UIEffectDeps(map, mapbox, deps) == <<map, mapbox>> \o deps

RunRt(active, rt) ==
  IF rt = NoRt THEN active ELSE SelectSeq(active, LAMBDA a : a.map # rt.map)

\* ------------------------------------------------------ Map.tsx
ChildrenShownAlways(loadedFlag) == TRUE

\* {isLoaded && children}
ChildrenShown(loadedFlag) == loadedFlag

EffectCleanupKeepOn(b, c) ==
  MapOn(removeListeners(b, c.once), "load", onLoad)

\* The teardown the mount effect returns, applied to the instance's bus.
EffectCleanup(b, c) ==
  MapOn(removeListeners(removeListeners(b, c.on), c.once), "load", onLoad)

\* The body of the mount effect after the constructor, applied to the new
\* instance's bus: both listener groups, then the internal load listener.
EffectListeners(p) ==
  [on |-> createListeners(pickHandlers(PROPS[p])[1], p, "on"),
   once |-> createListeners(pickHandlers(PROPS[p])[2], p, "once")]

EffectSetupLoadFirst(b, p) ==
  addListeners(addListeners(MapOn(b, "load", onLoad), EffectListeners(p).on),
               EffectListeners(p).once)

EffectSetup(b, p) ==
  MapOn(addListeners(addListeners(b, EffectListeners(p).on),
                     EffectListeners(p).once), "load", onLoad)


\* ------------------------------------------------------ actions
\* The parent re-renders Map with other props.
ParentRerender(p) ==
  /\ lifecycle = "mounted" /\ phase = "idle"
  /\ p # props
  /\ props' = p
  /\ dirty' = TRUE
  /\ UNCHANGED <<lifecycle, phase, rProps, mapVars, busVars, childVars, orphanVars>>

\* The child's own dep (e.g. the coordinates of a marker) changes.
ChildDepChange ==
  /\ lifecycle = "mounted" /\ phase = "idle"
  /\ childDep' = 1 - childDep
  /\ dirty' = TRUE
  /\ UNCHANGED <<lifecycle, phase, props, rProps, mapVars, busVars, childSeen,
                 childDeps, childPending, childRt, childActive, childMaps,
                 orphanVars>>

MapRenderResync ==
  /\ lifecycle = "mounted" /\ phase = "idle" /\ dirty
  /\ rProps' = props
  /\ ctxMap' = mapInstance
  /\ childrenRendered' = ChildrenShown(isLoaded)
  /\ mapPending' = (mapDeps = Unset \/ mapDeps # containerRef)
  /\ mapDeps' = containerRef
  /\ containerRef' = Div
  /\ IF childrenRendered'
     THEN /\ childSeen' = mapInstance
          /\ childDeps' = UIEffectDeps(mapInstance, MapboxGL, <<childDep>>)
          /\ childPending' = (~childrenRendered \/ childDeps' # childDeps)
     ELSE /\ childPending' = FALSE
          /\ UNCHANGED <<childSeen, childDeps>>
  /\ dirty' = FALSE
  /\ phase' = "c1"
  /\ bus' = IF mapInstance = Null THEN bus
            ELSE [bus EXCEPT ![mapInstance] = EffectSetup(EmptyBus, props)]
  /\ UNCHANGED <<lifecycle, props, mapInstance, isLoaded, cleanup, constructed,
                 tornDown, captured, loaded, loadedBy, lastFired, staleUpdate,
                 onceCalls,
                 childDep, childRt, childActive, childMaps, orphanVars>>

\* One render of Map and of the children it shows, and its commit: the hooks
\* read the state, the provider publishes mapInstance, the ref callback
\* attaches the div, and the effects whose deps changed are scheduled.
MapRender ==
  /\ lifecycle = "mounted" /\ phase = "idle" /\ dirty
  /\ rProps' = props
  /\ ctxMap' = mapInstance
  /\ childrenRendered' = ChildrenShown(isLoaded)
  /\ mapPending' = (mapDeps = Unset \/ mapDeps # containerRef)
  /\ mapDeps' = containerRef
  /\ containerRef' = Div
  /\ IF childrenRendered'
     THEN /\ childSeen' = mapInstance
          /\ childDeps' = UIEffectDeps(mapInstance, MapboxGL, <<childDep>>)
          /\ childPending' = (~childrenRendered \/ childDeps' # childDeps)
     ELSE /\ childPending' = FALSE
          /\ UNCHANGED <<childSeen, childDeps>>
  /\ dirty' = FALSE
  /\ phase' = "c1"
  /\ UNCHANGED <<lifecycle, props, mapInstance, isLoaded, cleanup, constructed,
                 busVars, childDep, childRt, childActive, childMaps, orphanVars>>

\* Flush, step 1: the cleanup of the child's previous effect run.
ChildCleanup ==
  /\ phase = "c1"
  /\ phase' = "c2"
  /\ IF childPending
     THEN /\ childActive' = RunRt(childActive, childRt)
          /\ childRt' = NoRt
     ELSE UNCHANGED <<childActive, childRt>>
  /\ UNCHANGED <<lifecycle, dirty, props, rProps, mapVars, busVars, childDep,
                 childSeen, childDeps, childPending, childMaps, orphanVars>>

MapTeardownReset ==
  /\ phase = "c2"
  /\ phase' = "e1"
  /\ IF mapPending /\ cleanup # NoCleanup
     THEN /\ bus' = [bus EXCEPT ![cleanup.map] = EffectCleanup(@, cleanup)]
          /\ tornDown' = tornDown \cup {cleanup.map}
          /\ cleanup' = NoCleanup
          /\ isLoaded' = FALSE
     ELSE UNCHANGED <<bus, tornDown, cleanup, isLoaded>>
  /\ UNCHANGED <<lifecycle, dirty, props, rProps, mapInstance, ctxMap,
                 childrenRendered, mapDeps, mapPending, constructed, containerRef,
                 captured, loaded, loadedBy, lastFired, staleUpdate, onceCalls,
                 childVars,
                 orphanVars>>

\* Flush, step 2: the teardown of the mount effect's previous run.
MapTeardown ==
  /\ phase = "c2"
  /\ phase' = "e1"
  /\ IF mapPending /\ cleanup # NoCleanup
     THEN /\ bus' = [bus EXCEPT ![cleanup.map] = EffectCleanup(@, cleanup)]
          /\ tornDown' = tornDown \cup {cleanup.map}
          /\ cleanup' = NoCleanup
     ELSE UNCHANGED <<bus, tornDown, cleanup>>
  /\ UNCHANGED <<lifecycle, dirty, props, rProps, mapInstance, isLoaded, ctxMap,
                 childrenRendered, mapDeps, mapPending, constructed, containerRef,
                 captured, loaded, loadedBy, lastFired, staleUpdate, onceCalls,
                 childVars,
                 orphanVars>>

\* Flush, step 3: the child's useMapboxUIEffect body.
ChildEffect ==
  /\ phase = "e1"
  /\ phase' = "e2"
  /\ IF childPending
     THEN LET r == UIEffect(childSeen, MapboxGL)
          IN /\ childActive' =
                  IF r.called
                  THEN Append(childActive, [map |-> r.arg.map,
                                            mapbox |-> r.arg.mapbox,
                                            ctx |-> ctxMap])
                  ELSE childActive
             /\ childMaps' = IF r.called THEN childMaps \cup {r.arg.map}
                             ELSE childMaps
             /\ childRt' = r.rt
             /\ childPending' = FALSE
     ELSE UNCHANGED <<childActive, childMaps, childRt, childPending>>
  /\ UNCHANGED <<lifecycle, dirty, props, rProps, mapVars, busVars, childDep,
                 childSeen, childDeps, orphanVars>>

\* Flush, step 4: the mount effect of Map.
MapEffect ==
  /\ phase = "e2"
  /\ phase' = "idle"
  /\ (mapPending /\ containerRef # NoRef) => constructed < MaxMaps
  /\ mapPending' = FALSE
  /\ IF mapPending /\ containerRef # NoRef
     THEN LET map == constructed + 1
          IN /\ constructed' = map
             /\ bus' = [bus EXCEPT ![map] = EffectSetup(@, rProps)]
             /\ captured' = [captured EXCEPT ![map] = rProps]
             /\ mapInstance' = map
             /\ dirty' = TRUE
             /\ cleanup' = [map |-> map, on |-> EffectListeners(rProps).on,
                            once |-> EffectListeners(rProps).once]
     ELSE UNCHANGED <<constructed, bus, captured, mapInstance, dirty, cleanup>>
  /\ UNCHANGED <<lifecycle, props, rProps, isLoaded, ctxMap, childrenRendered,
                 mapDeps, containerRef, tornDown, loaded, loadedBy, lastFired,
                 staleUpdate, onceCalls, childVars, orphanVars>>

\* A constructed instance emits an event ("load" at most once per instance).
\* The internal listener calls setIsLoaded(true).
Emit(i, e) ==
  /\ phase \in {"idle", "c1"}
  /\ i \in 1..constructed
  /\ e = "load" => i \notin loaded
  /\ LET called == Called(bus[i], e)
         internal == onLoad \in Range(called)
     IN /\ bus' = [bus EXCEPT ![i] = AfterFire(@, e)]
        /\ lastFired' = [inst |-> i, event |-> e, stale |-> i \in tornDown,
                         called |-> called, wasLoaded |-> isLoaded,
                         shown |-> childrenRendered, ran |-> childMaps # {}]
        /\ loaded' = IF e = "load" THEN loaded \cup {i} ELSE loaded
        /\ onceCalls' = [f \in OnceFns |-> onceCalls[f] + OnceCount(called, f)]
        /\ IF internal /\ lifecycle = "mounted"
           THEN /\ isLoaded' = TRUE
                /\ loadedBy' = IF isLoaded THEN loadedBy ELSE i
                /\ dirty' = (dirty \/ ~isLoaded)
                /\ UNCHANGED staleUpdate
           ELSE /\ staleUpdate' = (staleUpdate \/ internal)
                /\ UNCHANGED <<isLoaded, loadedBy, dirty>>
  /\ UNCHANGED <<lifecycle, phase, props, rProps, mapInstance, ctxMap,
                 childrenRendered, mapDeps, mapPending, cleanup, constructed,
                 containerRef, tornDown, captured, childVars, orphanVars>>

\* Map unmounts: the children's cleanups run, then the mount effect's teardown.
Unmount ==
  /\ lifecycle = "mounted" /\ phase = "idle" /\ mapDeps # Unset
  /\ lifecycle' = "unmounted"
  /\ childrenRendered' = FALSE
  /\ dirty' = FALSE
  /\ childActive' = RunRt(childActive, childRt)
  /\ childRt' = NoRt
  /\ IF cleanup # NoCleanup
     THEN /\ bus' = [bus EXCEPT ![cleanup.map] = EffectCleanup(@, cleanup)]
          /\ tornDown' = tornDown \cup {cleanup.map}
          /\ cleanup' = NoCleanup
     ELSE UNCHANGED <<bus, tornDown, cleanup>>
  /\ UNCHANGED <<phase, props, rProps, mapInstance, isLoaded, ctxMap, mapDeps,
                 mapPending, constructed, containerRef, captured, loaded,
                 loadedBy, lastFired, staleUpdate, onceCalls, childDep, childSeen,
                 childDeps, childPending, childMaps, orphanVars>>

\* A component that calls useMapboxUIEffect with no Map provider above it.
OrphanRender ==
  /\ orphan = "none"
  /\ orphan' = "rendered"
  /\ UNCHANGED <<lifecycle, phase, dirty, props, rProps, mapVars, busVars,
                 childVars, orphanActive>>

OrphanEffect ==
  /\ orphan = "rendered"
  /\ orphan' = "committed"
  /\ LET r == UIEffect(MapCtx.map, MapCtx.mapbox)
     IN orphanActive' =
          IF r.called
          THEN Append(orphanActive, [map |-> r.arg.map, mapbox |-> r.arg.mapbox,
                                     ctx |-> MapCtx.map])
          ELSE orphanActive
  /\ UNCHANGED <<lifecycle, phase, dirty, props, rProps, mapVars, busVars,
                 childVars>>

Next ==
  \/ \E p \in PropIds : ParentRerender(p)
  \/ ChildDepChange
  \/ MapRender
  \/ ChildCleanup
  \/ MapTeardown
  \/ ChildEffect
  \/ MapEffect
  \/ \E i \in Insts, e \in Events : Emit(i, e)
  \/ Unmount
  \/ OrphanRender
  \/ OrphanEffect

Spec == Init /\ [][Next]_vars



\* ------------------------------------------------------ properties
\* The listeners createListeners built for event e, in registration order.
ListenersFor(ls, e) ==
  LET sel == SelectSeq(ls, LAMBDA h : h.event = e)
  IN [k \in 1..Len(sel) |-> sel[k].listener]

\* C1: over the lifecycle of one Map component the MapboxGL.Map constructor
\* is invoked exactly once (never a second time).
C1_ConstructedOnce == constructed <= 1

\* C2: whenever the children are rendered, some instance constructed by this
\* component has already emitted "load".
C2_ChildrenGated ==
  childrenRendered => (loaded # {} /\ loaded \subseteq 1..constructed)

C2_Witness == childrenRendered /\ lifecycle = "mounted"

\* C3: whenever the children are rendered, the context's map is non-null, is
\* the most recently constructed instance, has not been torn down, and is the
\* instance whose "load" event set isLoaded.
C3_LiveLoadedInstance ==
  childrenRendered =>
    /\ ctxMap # Null
    /\ ctxMap = constructed
    /\ ctxMap \notin tornDown
    /\ ctxMap = loadedBy

\* C4: after the teardown of an instance's effect no handler-prop listener is
\* registered on that instance, and an event it emits calls no handler prop.
C4_HandlersDeregistered ==
  /\ \A i \in tornDown, e \in Events :
       \A l \in Range(Called(bus[i], e)) : l.src # "prop"
  /\ lastFired.stale => \A l \in Range(lastFired.called) : l.src # "prop"

C4_Witness ==
  /\ lastFired.stale
  /\ \E l \in Range(EffectListeners(captured[lastFired.inst]).on) :
       l.event = lastFired.event

\* C5: from the run of the mount effect until unmount, every "on" handler prop
\* the effect registered is registered on the instance that is in the context.
C5_HandlersStayAttached ==
  (lifecycle = "mounted" /\ cleanup # NoCleanup /\ ctxMap # Null) =>
    \A l \in Range(cleanup.on) : l.listener \in Range(bus[ctxMap].on[l.event])

\* C6: the callback of useMapboxUIEffect is never invoked with a null map or
\* mapbox: never outside a provider, never before an instance is published;
\* each invocation receives the map and mapbox that are in the context.
C6_EffectHasMap ==
  /\ orphanActive = <<>>
  /\ Null \notin childMaps
  /\ \A a \in Range(childActive) \cup Range(orphanActive) :
       /\ a.map \in 1..constructed
       /\ a.mapbox = MapboxGL
       /\ a.map = a.ctx

C6_Witness == childActive # <<>> /\ orphan = "committed"

\* C7: invocations of the callback and of its cleanup alternate: at most one
\* invocation is active, its cleanup is the registered one, it is for the
\* map the child last read once the flush is over, and none survives unmount.
C7_CallbackCleanupAlternate ==
  /\ Len(childActive) <= 1
  /\ childActive # <<>> => childRt = [map |-> childActive[1].map]
  /\ (childActive # <<>> /\ phase = "idle") => childActive[1].map = childSeen
  /\ lifecycle = "unmounted" => childActive = <<>>

C7_Witness ==
  /\ childMaps = {1, 2}
  /\ Len(childActive) = 1
  /\ childActive[1].map = 2

\* C8: after the teardown of an instance's effect the internal load listener
\* is no longer registered on it, so its "load" event does not call
\* setIsLoaded and no state update happens after unmount.
C8_LoadListenerRemoved ==
  /\ \A i \in tornDown : onLoad \notin Range(Called(bus[i], "load"))
  /\ lastFired.stale => onLoad \notin Range(lastFired.called)
  /\ ~staleUpdate
  /\ \A i \in Insts :
       Len(SelectSeq(Called(bus[i], "load"), LAMBDA l : l = onLoad)) <= 1

\* C9: while a run of the mount effect is in force, the "on" listeners of its
\* instance are exactly those built from the props of the render in which it
\* ran (with those props as listener context), followed by the internal load
\* listener, and the "once" listeners are among those built from them,
\* whatever props later renders have seen.
C9_CapturedAtMount ==
  cleanup # NoCleanup =>
    LET m == cleanup.map
        L == EffectListeners(captured[m])
    IN \A e \in Events :
         /\ bus[m].on[e] = ListenersFor(L.on, e) \o
                           (IF e = "load" THEN <<onLoad>> ELSE <<>>)
         /\ Range(bus[m].once[e]) \subseteq Range(ListenersFor(L.once, e))

C9_Witness ==
  /\ cleanup # NoCleanup
  /\ lifecycle = "mounted" /\ phase = "idle" /\ ~dirty
  /\ rProps # captured[cleanup.map]
  /\ mapDeps = Div

\* C10: isLoaded never goes from true to false, and the children, once
\* rendered, stay rendered as long as Map is mounted.
C10_LoadedMonotonic ==
  [][ /\ isLoaded => isLoaded'
      /\ (childrenRendered /\ lifecycle' = "mounted") => childrenRendered' ]_vars

C10_Witness ==
  /\ isLoaded /\ childrenRendered
  /\ lastFired.event = "load" /\ ~lastFired.stale
  /\ lastFired.inst \in tornDown
  /\ ctxMap = 2


\* C11: a handler prop registered with listenType "once" is invoked at most
\* one time over the whole lifetime of the Map component.
C11_OnceAtMostOnce == \A f \in OnceFns : onceCalls[f] <= 1


====
